---- MODULE Spec2Model ----
(***************************************************************************)
(* The WebSocket chat demo client (projects/websocket-chat-demo/demo.py):  *)
(* main() validates the arguments, run_demo() provisions the room, draws   *)
(* the usernames, and gathers one simulate_chat() task per ChatClient.     *)
(* Every ChatClient owns a transport, a running flag and a listen() task.  *)
(* asyncio tasks interleave at their await points only, so every action   *)
(* below is one segment of code between two awaits.                        *)
(***************************************************************************)
EXTENDS Integers, Sequences, FiniteSets, TLC

\* ---------------------------------------------------------------- bounds
\* Largest valid --users value the inputs take.
MaxUsers == 2
\* Largest --messages value the inputs take.
MaxMsgs == 2
\* Inbound frames the service delivers to the one client of a single-client run.
MaxFrames == 2
\* Inbound frames the service delivers, all clients together, in any other run.
FewFrames == 1
\* Longest users list a users payload carries.
MaxItems == 2
\* Distinct usernames the elements of a users list carry.
MaxNames == 2
\* close() calls made on one client; submit_payment and get_status calls
\* made on one PaymentClient.
MaxCalls == 2
\* Largest operand and largest result of a math call.
MaxOperand == 2
\* Longest job_ids list watch_jobs is given.
MaxJobs == 2
\* Largest max_wait of watch_jobs, in poll intervals.
MaxWait == 2

\* ------------------------------------------------------------- constants
\* len(USERNAMES)
PoolSize == 12
USERNAMES == 1..PoolSize
\* payload.get("username") when the key is missing
NoName == 0
\* A name that is in the pool but is not one of the first MaxUsers + 1 names.
Outsider == PoolSize

VARIABLES
    phase,        \* position of main()/run_demo()
    usersArg,     \* args.users
    messagesArg,  \* args.messages
    serverUrl,    \* kind of args.server: "ws", "http" or "bad"
    roomResult,   \* how ensure_room_exists() ended
    httpPosts,    \* number of POST /api/v1/rooms requests issued
    username,     \* ChatClient.username, one per client
    pc,           \* position of each simulate_chat() task
    ws,           \* ChatClient.ws: "none", "open", "lost" (closed by the peer), "closed"
    running,      \* ChatClient.running
    listener,     \* state of listener_task
    out,          \* frames each client has sent, in order
    connErr,      \* "Failed to connect" lines each client has logged
    lines,        \* log() lines each client's listen() has printed
    errors,       \* log_error() lines each client's listen() has printed
    sawJoined,    \* listen() has reported "Successfully joined room"
    inbound,      \* frames the service has yet to deliver, all clients together
    heard,        \* the frame the latest pass of a listen() loop has read, and its client
    conn,         \* the connection object each ChatClient.ws refers to: 0 for None
    arg,          \* the argument of the method call under examination
    ret,          \* what that call has returned
    nc,           \* the NATS connection: what was published and requested on it
    js,           \* PaymentClient._js: 0 for None, else the JetStream context
    completed_jobs, \* watch_jobs: the ids seen in a terminal status
    elapsed,      \* watch_jobs: time.time() - start_time, in poll intervals
    cursor,       \* watch_jobs: the place of job_id in job_ids, in the current round
    round,        \* watch_jobs: the number of polling rounds begun
    polled,       \* watch_jobs: the ids fetched in the current round
    job           \* watch_jobs: what the latest client.get_job() gave

vars == << phase, usersArg, messagesArg, serverUrl, roomResult, httpPosts,
           username, pc, ws, running, listener, out, connErr, lines, errors,
           sawJoined, inbound, heard, conn, arg, ret, nc, js,
           completed_jobs, elapsed, cursor, round, polled, job >>

\* What a run of the chat demo never touches: the state of the method calls
\* examined on their own and of the NATS clients.
callVars == << arg, ret, nc, js >>

watchVars == << completed_jobs, elapsed, cursor, round, polled, job >>

NoJob == [id |-> 0, status |-> "none"]

\* No call of watch_jobs is under examination.
NoWatch ==
    /\ completed_jobs = { }
    /\ elapsed = 0
    /\ cursor = 0
    /\ round = 0
    /\ polled = { }
    /\ job = NoJob

argVars == << usersArg, messagesArg, serverUrl, callVars, watchVars >>

\* What only run_demo() and connect() assign: the arguments and the
\* connection objects.
mainVars == << argVars, conn >>
clientVars == << username, pc, ws, running, listener, out, connErr, lines,
                 errors, sawJoined, inbound, heard >>

Clients == DOMAIN pc

Range(f) == { f[i] : i \in DOMAIN f }

RECURSIVE SumOver(_, _)
SumOver(f, S) ==
    IF S = {} THEN 0
    ELSE LET i == CHOOSE j \in S : TRUE IN f[i] + SumOver(f, S \ {i})

\* Number of frames of type t in the sequence s.
Count(s, t) == Cardinality({ i \in DOMAIN s : s[i] = t })

\* ------------------------------------------------------------------ main
UserArgs == (-1 .. MaxUsers) \cup { PoolSize + 1 }
MsgArgs == 0 .. MaxMsgs
ServerUrls == { "ws", "http", "bad" }

ArgsValidNoPoolCheck(u, m) == u >= 1 /\ m >= 1

\* main(): the three checks before asyncio.run(run_demo(...)).
ArgsValid(u, m) == u >= 1 /\ u <= PoolSize /\ m >= 1

Main ==
    /\ phase = "main"
    /\ phase' = IF ArgsValid(usersArg, messagesArg) THEN "provision" ELSE "rejected"
    /\ UNCHANGED << mainVars, roomResult, httpPosts, clientVars >>

\* ---------------------------------------------------- ensure_room_exists
\* A scheme other than ws/wss/http/https or a missing host returns before the
\* request; otherwise the POST is issued and ends in 201, 409, another HTTP
\* error, or an exception (connection refused, timeout).
RoomOutcomes(url) ==
    IF url = "bad" THEN { "invalid_url" }
    ELSE { "created", "conflict", "http_error", "unreachable" }

ProvisionNextRaisesOnFailure(result) ==
    IF result \in { "http_error", "unreachable" } THEN "aborted" ELSE "create"

ProvisionNextRaisesOnConflict(result) ==
    IF result = "conflict" THEN "aborted" ELSE "create"

\* ensure_room_exists() prints and returns in every branch; run_demo() goes on.
ProvisionNext(result) == "create"

EnsureRoomExists ==
    /\ phase = "provision"
    /\ \E r \in RoomOutcomes(serverUrl) :
          /\ roomResult' = r
          /\ httpPosts' = IF r = "invalid_url" THEN httpPosts ELSE httpPosts + 1
          /\ phase' = ProvisionNext(r)
    /\ UNCHANGED << mainVars, clientVars >>

\* -------------------------------------------------------------- run_demo
SampleSizeOneLess(n) == n - 1

\* min(num_users, len(USERNAMES))
SampleSize(n) == IF n < PoolSize THEN n ELSE PoolSize

RandomChoices(k) == [1..k -> USERNAMES]

\* random.sample(USERNAMES, k): the k-element sequences without repetition.
RandomSample(k) ==
    { s \in [1..k -> USERNAMES] : \A i, j \in 1..k : i # j => s[i] # s[j] }

\* The one outcome of random.sample that draws the pool in its own order.
FirstSample(k) == { [i \in 1..k |-> i] }

TaskStartStaggered(i) == IF i = 1 THEN "connect" ELSE "delay"

\* tasks = [simulate_chat(client, ...) for client in clients] handed to
\* asyncio.gather at once: the task of every client, whatever its place in
\* the list, starts at its connect.
TaskStart(i) == "connect"

\* run_demo(): the sample, one ChatClient per name, one task per client.
\* random.sample raises ValueError on a negative size.
CreateClients(samples) ==
    /\ phase = "create"
    /\ IF SampleSize(usersArg) < 0
       THEN /\ phase' = "crashed"
            /\ UNCHANGED << clientVars, conn >>
       ELSE \E sel \in samples :
              /\ username' = sel
              /\ conn' = [i \in DOMAIN sel |-> 0]
              /\ pc' = [i \in DOMAIN sel |-> TaskStart(i)]
              /\ ws' = [i \in DOMAIN sel |-> "none"]
              /\ running' = [i \in DOMAIN sel |-> TRUE]
              /\ listener' = [i \in DOMAIN sel |-> "none"]
              /\ out' = [i \in DOMAIN sel |-> << >>]
              /\ connErr' = [i \in DOMAIN sel |-> 0]
              /\ lines' = [i \in DOMAIN sel |-> 0]
              /\ errors' = [i \in DOMAIN sel |-> 0]
              /\ sawJoined' = [i \in DOMAIN sel |-> FALSE]
              /\ phase' = "gather"
              /\ UNCHANGED << inbound, heard >>
    /\ UNCHANGED << argVars, roomResult, httpPosts >>

RunDemoCreate == CreateClients(FirstSample(SampleSize(usersArg)))

\* ------------------------------------------------------------ ChatClient
Live == phase = "gather"

\* Everything of the clients that an action on the script of c leaves alone.
ListenUnchanged == UNCHANGED << listener, lines, errors, sawJoined, inbound, heard >>

AfterConnectIgnoresFailure(ok) == "join"

AfterConnectRaises(ok) == IF ok THEN "join" ELSE "raised"

NewConnectionShared(held, c) == 1

\* websockets.connect() returns a new connection object: one that no client
\* holds. Client c's is given the number c when that is free.
NewConnection(held, c) ==
    IF c \notin held THEN c ELSE CHOOSE h \in 1 .. (Cardinality(held) + 1) : h \notin held

\* if not await client.connect(): return
AfterConnect(ok) == IF ok THEN "join" ELSE "aborted"

\* connect(): websockets.connect() succeeds only on a ws/wss URL the service
\* accepts; every exception is logged and turned into False, on which
\* simulate_chat() returns.
Connect(c) ==
    /\ Live
    /\ pc[c] = "connect"
    /\ \E ok \in (IF serverUrl = "ws" THEN BOOLEAN ELSE { FALSE }) :
          /\ pc' = [pc EXCEPT ![c] = AfterConnect(ok)]
          /\ IF ok
             THEN /\ ws' = [ws EXCEPT ![c] = "open"]
                  /\ conn' = [conn EXCEPT ![c] = NewConnection(Range(conn), c)]
                  /\ UNCHANGED connErr
             ELSE /\ connErr' = [connErr EXCEPT ![c] = @ + 1]
                  /\ UNCHANGED << ws, conn >>
    /\ UNCHANGED << phase, argVars, roomResult, httpPosts, username, running, out >>
    /\ ListenUnchanged

LoopNextOffByOne(i, n) == IF i <= n THEN "message" ELSE "leave"

\* for i in range(num_messages): the position after i messages were sent.
LoopNext(i, n) == IF i < n THEN "message" ELSE "leave"

ScriptNextMessagesFirst(t, sent, n) ==
    CASE t = "join" -> LoopNext(0, n)
      [] t = "message" -> IF sent + 1 < n THEN "message" ELSE "history"
      [] t = "history" -> "users"
      [] t = "users" -> "leave"
      [] t = "leave" -> "stop"

ScriptNextUsersFirst(t, sent, n) ==
    CASE t = "join" -> "users"
      [] t = "users" -> "history"
      [] t = "history" -> LoopNext(0, n)
      [] t = "message" -> LoopNext(sent + 1, n)
      [] t = "leave" -> "stop"

\* The position that follows the send of a frame of type t.
ScriptNext(t, sent, n) ==
    CASE t = "join" -> "history"
      [] t = "history" -> "users"
      [] t = "users" -> LoopNext(0, n)
      [] t = "message" -> LoopNext(sent + 1, n)
      [] t = "leave" -> "stop"

AfterFailedSendGoesOn(t, sent, n) == ScriptNext(t, sent, n)

\* The position after a send that raised ConnectionClosed: no method of
\* ChatClient and nothing in simulate_chat() catches it.
AfterFailedSend(t, sent, n) == "raised"

\* await self.ws.send(json.dumps(message)): the frame goes out on an open
\* transport; on a transport the peer has closed, send raises
\* ConnectionClosed, which nothing in simulate_chat() catches.
Send(c, t) ==
    /\ Live
    /\ pc[c] = t
    /\ IF ws[c] = "open"
       THEN /\ out' = [out EXCEPT ![c] = Append(@, t)]
            /\ pc' = [pc EXCEPT ![c] = ScriptNext(t, Count(out[c], "message"), messagesArg)]
       ELSE /\ pc' = [pc EXCEPT ![c] =
                        AfterFailedSend(t, Count(out[c], "message"), messagesArg)]
            /\ UNCHANGED out
    /\ UNCHANGED << phase, mainVars, roomResult, httpPosts, username, ws, running, connErr >>

CreateTaskSkipped(l) == l

\* asyncio.create_task(client.listen()): the listener of the client, from
\* what it was before.
CreateTask(l) == "running"

\* listener_task = asyncio.create_task(client.listen()), then join_room():
\* nothing is awaited between the two.
JoinRoom(c) ==
    /\ Send(c, "join")
    /\ listener' = [listener EXCEPT ![c] = CreateTask(@)]
    /\ UNCHANGED << lines, errors, sawJoined, inbound, heard >>

JoinWaitNeedsConfirmation(joined) == joined

\* await asyncio.sleep(0.5) after join_room(): the wait is over after half a
\* second, whether or not the joined frame has been read.
JoinWaitOver(joined) == TRUE

GetHistory(c) ==
    /\ JoinWaitOver(sawJoined[c])
    /\ Send(c, "history")
    /\ ListenUnchanged
GetUsers(c) == Send(c, "users") /\ ListenUnchanged
SendMessage(c) == Send(c, "message") /\ ListenUnchanged
LeaveRoom(c) == Send(c, "leave") /\ ListenUnchanged

StopFlagKept(c) == running

\* self.running = False (close()) and client.running = False (simulate_chat()).
StopFlag(c) == [running EXCEPT ![c] = FALSE]

\* client.running = False; listener_task.cancel(); up to await listener_task.
\* cancel() on a task that has already ended changes nothing.
StopListener(c) ==
    /\ Live
    /\ pc[c] = "stop"
    /\ running' = StopFlag(c)
    /\ listener' = [listener EXCEPT ![c] = IF @ = "running" THEN "cancelling" ELSE @]
    /\ pc' = [pc EXCEPT ![c] = "await"]
    /\ UNCHANGED << phase, mainVars, roomResult, httpPosts, username, ws, out,
                    connErr, lines, errors, sawJoined, inbound, heard >>

CancelErrorsAsException(l) == IF l = "cancelling" THEN 1 ELSE 0

\* The log_error() lines of a listener that is cancelled: `except Exception`
\* does not catch CancelledError.
CancelErrors(l) == 0

\* The task resumes listen() with CancelledError, which is no Exception: the
\* task ends cancelled and prints nothing.
ListenerCancelled(c) ==
    /\ phase \in { "gather", "crashed" }
    /\ listener[c] = "cancelling"
    /\ listener' = [listener EXCEPT ![c] = "cancelled"]
    /\ errors' = [errors EXCEPT ![c] = @ + CancelErrors(listener[c])]
    /\ UNCHANGED << phase, mainVars, roomResult, httpPosts, username, pc, ws, running,
                    out, connErr, lines, sawJoined, inbound, heard >>

TaskDoneNotAwaited(l) == TRUE

\* await listener_task gets past the task once it has ended or was cancelled.
TaskDone(l) == l \in { "ended", "cancelled" }

\* await listener_task returns (or raises the CancelledError that is passed
\* over) once the task is done; close() then sets running and starts
\* ws.close().
AwaitListener(c) ==
    /\ phase \in { "gather", "crashed" }
    /\ pc[c] = "await"
    /\ TaskDone(listener[c])
    /\ running' = StopFlag(c)
    /\ pc' = [pc EXCEPT ![c] = "closing"]
    /\ UNCHANGED << phase, mainVars, roomResult, httpPosts, username, ws, listener,
                    out, connErr, lines, errors, sawJoined, inbound, heard >>

\* The transport after ws.close() has returned: closing a connection that
\* is closed already changes nothing.
ClosedWs(w) == IF w = "open" THEN "closed" ELSE w

\* await self.ws.close() returns: the transport is closed by this client
\* unless the peer had closed it already.
CloseDone(c) ==
    /\ phase \in { "gather", "crashed" }
    /\ pc[c] = "closing"
    /\ ws' = [ws EXCEPT ![c] = ClosedWs(@)]
    /\ pc' = [pc EXCEPT ![c] = "finished"]
    /\ UNCHANGED << phase, mainVars, roomResult, httpPosts, username, running,
                    listener, out, connErr, lines, errors, sawJoined, inbound, heard >>

\* The service or the network closes the connection of c.
ServerClose(c) ==
    /\ Live
    /\ ws[c] = "open"
    /\ ws' = [ws EXCEPT ![c] = "lost"]
    /\ UNCHANGED << phase, mainVars, roomResult, httpPosts, username, pc, running,
                    listener, out, connErr, lines, errors, sawJoined, inbound, heard >>

\* ---------------------------------------------------------------- listen
\* An inbound text frame, by what json.loads() makes of it: "garbage" does
\* not parse, "value" parses to something that is no object (a list, a
\* number, null), "object" parses to an object with an optional type and an
\* optional payload.
FrameTypes == { "joined", "user_joined", "user_left", "chat_message",
                "history", "users", "error", "unknown" }

\* payload.get("username") of an object payload: a client's name, another
\* name of the pool, or nothing.
Senders == { NoName, Outsider } \cup Range(username)

\* The payload of an object frame: an object (with its username and its
\* messages field), a list (empty or not), or any other JSON value.
DictPayload(u, m) == [shape |-> "dict", username |-> u, messages |-> m, size |-> 0]
ListPayload(n) == [shape |-> "list", username |-> NoName, messages |-> "absent", size |-> n]
OtherPayload == [shape |-> "other", username |-> NoName, messages |-> "absent", size |-> 0]

\* data.get("payload", {})
DefaultPayload == DictPayload(NoName, "absent")

MessagesFields == { "absent", "empty", "some", "other" }

PayloadsOf(t) ==
    { ListPayload(0), ListPayload(1), OtherPayload }
    \cup { DictPayload(u, m) :
             u \in (IF t \in { "user_joined", "user_left", "chat_message" }
                    THEN Senders ELSE { NoName }),
             m \in (IF t = "history" THEN MessagesFields ELSE { "absent" }) }

Frames ==
    { [raw |-> r, type |-> "unknown", payload |-> DefaultPayload] :
        r \in { "garbage", "value" } }
    \cup UNION { { [raw |-> "object", type |-> t, payload |-> p] :
                      p \in PayloadsOf(t) } : t \in FrameTypes }

\* The frames the service sends: any frame to the client of a single-client
\* run; with several clients a frame that does not parse, one that is no
\* object, or a joined confirmation.
BasicFrames ==
    { f \in Frames : f.raw # "object" \/ (f.type = "joined" /\ f.payload = DefaultPayload) }

Traffic == IF Cardinality(Clients) = 1 THEN Frames ELSE BasicFrames

Nothing == [client |-> 0, frame |-> [raw |-> "none", type |-> "unknown", payload |-> DefaultPayload]]

IsDict(p) == p.shape = "dict"

HistoryCountOfAnyList(p) ==
    CASE p.shape = "list" -> p.size + 1
      [] p.shape = "dict" -> IF p.messages \in { "some", "empty" } THEN 1 ELSE 0
      [] OTHER -> 0

\* The messages of a history payload: the list itself, the messages field of
\* an object, or nothing; the line is printed for a non-empty list only.
HistoryCount(p) ==
    CASE p.shape = "list" -> p.size
      [] p.shape = "dict" -> IF p.messages = "some" THEN 1 ELSE 0
      [] OTHER -> 0

InfoLinesEchoesOwn(me, t, p) ==
    CASE t = "joined" -> IF IsDict(p) THEN 1 ELSE 0
      [] t = "user_joined" -> IF IsDict(p) /\ p.username # me THEN 1 ELSE 0
      [] t = "user_left" -> IF IsDict(p) THEN 1 ELSE 0
      [] t = "chat_message" -> IF IsDict(p) THEN 1 ELSE 0
      [] t = "history" -> IF HistoryCount(p) > 0 THEN 1 ELSE 0
      [] t = "users" -> 1
      [] OTHER -> 0

\* The number of log() lines the branch of a parsed object frame prints.
InfoLines(me, t, p) ==
    CASE t = "joined" -> IF IsDict(p) THEN 1 ELSE 0
      [] t = "user_joined" -> IF IsDict(p) /\ p.username # me THEN 1 ELSE 0
      [] t = "user_left" -> IF IsDict(p) THEN 1 ELSE 0
      [] t = "chat_message" -> IF IsDict(p) /\ p.username # me THEN 1 ELSE 0
      [] t = "history" -> IF HistoryCount(p) > 0 THEN 1 ELSE 0
      [] t = "users" -> 1
      [] OTHER -> 0

\* The number of log_error() lines the branch of a parsed object frame prints.
ErrorLines(t, p) == IF t = "error" /\ IsDict(p) THEN 1 ELSE 0

HandleDecodeErrorEndsLoop(me, f) ==
    CASE f.raw \in { "garbage", "value" } ->
           [info |-> 0, err |-> 1, joined |-> FALSE, alive |-> FALSE]
      [] OTHER -> [info |-> InfoLines(me, f.type, f.payload),
                   err |-> ErrorLines(f.type, f.payload),
                   joined |-> f.type = "joined" /\ IsDict(f.payload),
                   alive |-> TRUE]

\* What one pass of the loop body does with a frame: the lines printed and
\* whether the loop goes on. json.JSONDecodeError is caught inside the loop;
\* data.get on a value that is no object raises AttributeError, which the
\* handler around the loop catches.
Handle(me, f) ==
    CASE f.raw = "garbage" -> [info |-> 0, err |-> 1, joined |-> FALSE, alive |-> TRUE]
      [] f.raw = "value" -> [info |-> 0, err |-> 1, joined |-> FALSE, alive |-> FALSE]
      [] OTHER -> [info |-> InfoLines(me, f.type, f.payload),
                   err |-> ErrorLines(f.type, f.payload),
                   joined |-> f.type = "joined" /\ IsDict(f.payload),
                   alive |-> TRUE]

\* async for raw_message in self.ws: one frame. A frame the peer sent before
\* it closed the connection is still read.
Listen(c) ==
    /\ Live
    /\ listener[c] = "running"
    /\ ws[c] \in { "open", "lost" }
    /\ inbound > 0
    /\ inbound' = inbound - 1
    /\ \E f \in Traffic :
          /\ heard' = [client |-> c, frame |-> f]
          /\ IF ~running[c]
             THEN /\ listener' = [listener EXCEPT ![c] = "ended"]
                  /\ UNCHANGED << lines, errors, sawJoined >>
             ELSE LET h == Handle(username[c], f) IN
                  /\ lines' = [lines EXCEPT ![c] = @ + h.info]
                  /\ errors' = [errors EXCEPT ![c] = @ + h.err]
                  /\ sawJoined' = [sawJoined EXCEPT ![c] = @ \/ h.joined]
                  /\ listener' = [listener EXCEPT ![c] =
                                    IF h.alive THEN @ ELSE "ended"]
    /\ UNCHANGED << phase, mainVars, roomResult, httpPosts, username, pc, ws, running,
                    out, connErr >>

\* The iteration ends on a closed connection: silently after a normal
\* closure, with ConnectionClosed (logged "Connection closed") otherwise.
ListenClosed(c) ==
    /\ Live
    /\ listener[c] = "running"
    /\ ws[c] = "lost"
    /\ listener' = [listener EXCEPT ![c] = "ended"]
    /\ \E normal \in BOOLEAN :
          lines' = [lines EXCEPT ![c] = IF normal THEN @ ELSE @ + 1]
    /\ UNCHANGED << phase, mainVars, roomResult, httpPosts, username, pc, ws, running,
                    out, connErr, errors, sawJoined, inbound, heard >>

\* ------------------------------------------------------- asyncio.gather
ReturnedOrClosing(p) == p \in { "finished", "aborted", "closing" }

\* The task of simulate_chat() has returned: after close(), or at once when
\* connect() gave False.
Returned(p) == p \in { "finished", "aborted" }

\* await asyncio.gather(*tasks) returns once every task has returned.
GatherDone ==
    /\ Live
    /\ \A c \in Clients : Returned(pc[c])
    /\ phase' = "done"
    /\ UNCHANGED << mainVars, roomResult, httpPosts, clientVars >>

\* What asyncio.run() makes of a task when run_demo() has raised: every task
\* that is not done is cancelled. A script waiting in await listener_task
\* passes over the CancelledError and goes on to close().
CancelledPc(p) ==
    IF p \in { "finished", "aborted", "raised", "await" } THEN p ELSE "cancelled"

\* gather() raises the first exception of a task; run_demo() raises it,
\* asyncio.run() cancels what is left and main() exits with status 1.
Crash ==
    /\ Live
    /\ \E c \in Clients : pc[c] = "raised"
    /\ phase' = "crashed"
    /\ pc' = [c \in Clients |-> CancelledPc(pc[c])]
    /\ listener' = [c \in Clients |->
                      IF listener[c] \in { "running", "cancelling" }
                      THEN "cancelled" ELSE listener[c]]
    /\ UNCHANGED << mainVars, roomResult, httpPosts, username, ws, running, out,
                    connErr, lines, errors, sawJoined, inbound, heard >>

\* --------------------------------------------------------- specification
Init ==
    /\ phase = "main"
    /\ usersArg \in UserArgs
    /\ messagesArg \in MsgArgs
    /\ serverUrl \in ServerUrls
    /\ roomResult = "none"
    /\ httpPosts = 0
    /\ username = << >>
    /\ pc = << >>
    /\ ws = << >>
    /\ running = << >>
    /\ listener = << >>
    /\ out = << >>
    /\ connErr = << >>
    /\ lines = << >>
    /\ errors = << >>
    /\ sawJoined = << >>
    /\ inbound = (IF usersArg = 1 THEN MaxFrames ELSE FewFrames)
    /\ heard = Nothing
    /\ conn = << >>
    /\ arg = << >>
    /\ ret = << >>
    /\ nc = << >>
    /\ js = 0
    /\ NoWatch

Next ==
    \/ Main
    \/ EnsureRoomExists
    \/ RunDemoCreate
    \/ GatherDone
    \/ Crash
    \/ \E c \in Clients : Connect(c)
    \/ \E c \in Clients : JoinRoom(c)
    \/ \E c \in Clients : GetHistory(c)
    \/ \E c \in Clients : GetUsers(c)
    \/ \E c \in Clients : SendMessage(c)
    \/ \E c \in Clients : LeaveRoom(c)
    \/ \E c \in Clients : StopListener(c)
    \/ \E c \in Clients : ListenerCancelled(c)
    \/ \E c \in Clients : AwaitListener(c)
    \/ \E c \in Clients : CloseDone(c)
    \/ \E c \in Clients : ServerClose(c)
    \/ \E c \in Clients : Listen(c)
    \/ \E c \in Clients : ListenClosed(c)

Spec == Init /\ [][Next]_vars

\* The runs with at most one client: the service sends that client any frame.
InitSolo == Init /\ usersArg \notin 2..MaxUsers

SpecSolo == InitSolo /\ [][Next]_vars

\* The start of a run with any outcome of random.sample: main(), the room,
\* the sample and the clients made from it.
RunDemoSample == CreateClients(RandomSample(SampleSize(usersArg)))

NextSample ==
    \/ Main
    \/ EnsureRoomExists
    \/ RunDemoSample

SpecSample == Init /\ [][NextSample]_vars

\* ------------------------------------------- calls examined on their own
\* The chat demo at rest: no run is in progress while one method is called.
NoChat ==
    /\ usersArg = 0
    /\ messagesArg = 0
    /\ serverUrl = "ws"
    /\ roomResult = "none"
    /\ httpPosts = 0
    /\ username = << >>
    /\ pc = << >>
    /\ ws = << >>
    /\ running = << >>
    /\ listener = << >>
    /\ out = << >>
    /\ connErr = << >>
    /\ lines = << >>
    /\ errors = << >>
    /\ sawJoined = << >>
    /\ inbound = 0
    /\ heard = Nothing
    /\ conn = << >>

chatVars == << phase, usersArg, messagesArg, serverUrl, roomResult, httpPosts,
               username, pc, ws, running, listener, out, connErr, lines, errors,
               sawJoined, inbound, heard, conn >>

\* ------------------------------------------------------ ChatClient.close
HasTransportAlways(w) == TRUE

\* if self.ws: a connection object is truthy, None is not.
HasTransport(w) == w # "none"

\* The clients close() is called on: one that never connected, one that is
\* connected or whose peer has closed, with running still set or cleared by
\* simulate_chat already.
ClosableStates ==
    { << "none", TRUE >>, << "open", TRUE >>, << "lost", TRUE >>,
      << "open", FALSE >>, << "lost", FALSE >> }

InitClose ==
    /\ phase = "gather"
    /\ usersArg = MaxUsers
    /\ messagesArg = 1
    /\ serverUrl = "ws"
    /\ roomResult = "created"
    /\ httpPosts = 1
    /\ username = [c \in 1..MaxUsers |-> c]
    /\ pc = [c \in 1..MaxUsers |-> "idle"]
    /\ \E st \in [1..MaxUsers -> ClosableStates] :
          /\ ws = [c \in 1..MaxUsers |-> st[c][1]]
          /\ conn = [c \in 1..MaxUsers |-> IF st[c][1] = "none" THEN 0 ELSE c]
          /\ running = [c \in 1..MaxUsers |-> st[c][2]]
    /\ listener = [c \in 1..MaxUsers |-> "none"]
    /\ out = [c \in 1..MaxUsers |-> << >>]
    /\ connErr = [c \in 1..MaxUsers |-> 0]
    /\ lines = [c \in 1..MaxUsers |-> 0]
    /\ errors = [c \in 1..MaxUsers |-> 0]
    /\ sawJoined = [c \in 1..MaxUsers |-> FALSE]
    /\ inbound = 0
    /\ heard = Nothing
    /\ arg = << >>
    /\ ret = [c \in 1..MaxUsers |-> 0]
    /\ nc = << >>
    /\ js = 0
    /\ NoWatch

\* close() up to its await: self.running = False; without a transport the
\* call returns at once (ret counts the calls that have returned).
\* None.close() would raise AttributeError.
CloseCall(c) ==
    /\ Live
    /\ pc[c] = "idle"
    /\ ret[c] < MaxCalls
    /\ running' = StopFlag(c)
    /\ IF HasTransport(ws[c])
       THEN /\ pc' = [pc EXCEPT ![c] = IF ws[c] = "none" THEN "raised" ELSE "closing"]
            /\ ret' = ret
       ELSE /\ pc' = pc
            /\ ret' = [ret EXCEPT ![c] = @ + 1]
    /\ UNCHANGED << phase, usersArg, messagesArg, serverUrl, roomResult, httpPosts,
                    username, ws, listener, out, connErr, lines, errors, sawJoined,
                    inbound, heard, conn, arg, nc, js, watchVars >>

\* await self.ws.close() returns, and close() with it.
CloseReturn(c) ==
    /\ Live
    /\ pc[c] = "closing"
    /\ ret[c] < MaxCalls
    /\ ws' = [ws EXCEPT ![c] = ClosedWs(@)]
    /\ pc' = [pc EXCEPT ![c] = "idle"]
    /\ ret' = [ret EXCEPT ![c] = @ + 1]
    /\ UNCHANGED << phase, usersArg, messagesArg, serverUrl, roomResult, httpPosts,
                    username, running, listener, out, connErr, lines, errors,
                    sawJoined, inbound, heard, conn, arg, nc, js, watchVars >>

NextClose ==
    \/ \E c \in Clients : CloseCall(c)
    \/ \E c \in Clients : CloseReturn(c)
    \/ \E c \in Clients : ServerClose(c)

SpecClose == InitClose /\ [][NextClose]_vars

\* ------------------------------------------ ChatClient._extract_usernames
\* An element of a users list: a string, an object (with a string under
\* "username", or without: name NoName), or a value of another type.
Names == 1 .. MaxNames

Elements ==
    { [kind |-> "str", name |-> n] : n \in Names }
    \cup { [kind |-> "dict", name |-> n] : n \in Names \cup { NoName } }
    \cup { [kind |-> "other", name |-> NoName] }

RECURSIVE SeqsUpTo(_, _)
SeqsUpTo(S, n) ==
    IF n = 0 THEN { << >> }
    ELSE SeqsUpTo(S, n - 1) \cup [1..n -> S]

\* A users payload: a list, an object (whose "users" field is a list, is
\* absent, or is no list) or a value of another type.
UsersPayloads ==
    { [shape |-> "list", field |-> "list", items |-> s] : s \in SeqsUpTo(Elements, MaxItems) }
    \cup { [shape |-> "dict", field |-> "list", items |-> s] : s \in SeqsUpTo(Elements, MaxItems) }
    \cup { [shape |-> "dict", field |-> x, items |-> << >>] : x \in { "absent", "other" } }
    \cup { [shape |-> "other", field |-> "absent", items |-> << >>] }

IsStr(u) == u.kind = "str"

\* [u for u in payload if isinstance(u, str)]
StringsOf(items) ==
    LET kept == SelectSeq(items, IsStr) IN [i \in 1..Len(kept) |-> kept[i].name]

AppendsStringsOnly(u) == u.kind = "str"

\* Whether the loop over payload["users"] appends the element's name.
Appends(u) ==
    IF u.kind = "dict" THEN u.name # NoName ELSE u.kind = "str"

\* The loop over users, from element i on, result being the list so far.
RECURSIVE ExtractLoop(_, _, _)
ExtractLoop(users, i, result) ==
    IF i > Len(users) THEN result
    ELSE ExtractLoop(users, i + 1,
                     IF Appends(users[i]) THEN Append(result, users[i].name) ELSE result)

ExtractUsernames(payload) ==
    IF payload.shape = "list" THEN StringsOf(payload.items)
    ELSE IF payload.shape # "dict" THEN << >>
    ELSE IF payload.field # "list" THEN << >>
    ELSE ExtractLoop(payload.items, 1, << >>)

\* One call of _extract_usernames on any payload.
InitExtract ==
    /\ NoChat
    /\ phase = "call"
    /\ arg \in UsersPayloads
    /\ ret = << >>
    /\ nc = << >>
    /\ js = 0
    /\ NoWatch

ExtractCall ==
    /\ phase = "call"
    /\ arg \in UsersPayloads
    /\ ret' = ExtractUsernames(arg)
    /\ phase' = "returned"
    /\ UNCHANGED << usersArg, messagesArg, serverUrl, roomResult, httpPosts,
                    clientVars, conn, arg, nc, js, watchVars >>

NextExtract == ExtractCall

SpecExtract == InitExtract /\ [][NextExtract]_vars

\* ------------------------------------------------------ run_demo's output
\* What run_demo() itself prints: the opening banner with the requested
\* user count and messages per user, the number of clients before they are
\* started, and the closing banner, which names no error. It returns None.
Printed ==
    [users |-> usersArg,
     perUser |-> messagesArg,
     started |-> Cardinality(Clients),
     completed |-> phase = "done",
     errors |-> { }]

\* ------------------------------------------------------- NATS connection
\* The connection a client object is built on, by what was asked of it:
\* the publishes and requests in order, the number of jetstream() calls and
\* the publishes made through a JetStream context.
EmptyNc == [published |-> << >>, requested |-> << >>, contexts |-> 0, streamed |-> << >>]

RemoveAt(s, i) == [j \in 1 .. (Len(s) - 1) |-> IF j < i THEN s[j] ELSE s[j + 1]]

\* --------------------------------------------------------- PaymentClient
PaymentIds == 1 .. MaxCalls

GetJetstreamEveryTime(j, n) == [js |-> n + 1, contexts |-> n + 1]

\* _get_jetstream(): self._js after the call and the number of jetstream()
\* calls made on the connection, from self._js and that number before it.
GetJetstream(j, n) ==
    IF j = 0 THEN [js |-> n + 1, contexts |-> n + 1] ELSE [js |-> j, contexts |-> n]

\* A new PaymentClient on a fresh connection; arg holds the payments whose
\* publish is awaited, ret counts the calls that have ended.
InitPayment ==
    /\ NoChat
    /\ phase = "payment"
    /\ arg = << >>
    /\ ret = [returned |-> 0, raised |-> 0]
    /\ nc = EmptyNc
    /\ js = 0
    /\ NoWatch

\* submit_payment() up to await js.publish(...).
SubmitPayment(p) ==
    /\ phase = "payment"
    /\ Len(nc.streamed) < MaxCalls
    /\ LET got == GetJetstream(js, nc.contexts) IN
          /\ js' = got.js
          /\ nc' = [nc EXCEPT !.contexts = got.contexts,
                              !.streamed = Append(@, [ctx |-> got.js,
                                                      subject |-> "services.payment.payment-process",
                                                      body |-> [payment_id |-> p]])]
    /\ arg' = Append(arg, p)
    /\ UNCHANGED << chatVars, ret, watchVars >>

\* js.publish() returns the ack or raises; submit_payment() ends with it.
SubmitPaymentEnds ==
    /\ phase = "payment"
    /\ \E i \in 1 .. Len(arg) : arg' = RemoveAt(arg, i)
    /\ \E ok \in BOOLEAN :
          ret' = IF ok THEN [ret EXCEPT !.returned = @ + 1]
                       ELSE [ret EXCEPT !.raised = @ + 1]
    /\ UNCHANGED << chatVars, nc, js, watchVars >>

\* get_status(): one request on the connection itself.
GetStatus(p) ==
    /\ phase = "payment"
    /\ Len(nc.requested) < MaxCalls
    /\ nc' = [nc EXCEPT !.requested = Append(@, [subject |-> "services.payment.status",
                                                 body |-> [payment_id |-> p]])]
    /\ UNCHANGED << chatVars, arg, ret, js, watchVars >>

NextPayment ==
    \/ \E p \in PaymentIds : SubmitPayment(p)
    \/ SubmitPaymentEnds
    \/ \E p \in PaymentIds : GetStatus(p)

SpecPayment == InitPayment /\ [][NextPayment]_vars

\* ----------------------------------------------------------- EmailClient
\* (to, subject, body) tuples.
Emails ==
    { [to |-> t, subject |-> s, body |-> b] :
        t \in 1 .. MaxNames, s \in { "welcome", "shipped" }, b \in { "text" } }

EmailRequestSwapped(e) == [to |-> e.to, subject |-> e.body, body |-> e.subject]

\* request = {"to": to, "subject": subject, "body": body}
EmailRequest(e) == [to |-> e.to, subject |-> e.subject, body |-> e.body]

\* send_bulk_emails(emails) on a new EmailClient: arg is the list and the
\* position of the loop, ret the outcome of the call.
InitEmail ==
    /\ NoChat
    /\ phase = "email"
    /\ \E es \in SeqsUpTo(Emails, MaxItems) : arg = [emails |-> es, i |-> 1]
    /\ ret = [state |-> "running", value |-> 0]
    /\ nc = EmptyNc
    /\ js = 0
    /\ NoWatch

\* One pass of the loop: send_email() publishes the next email, or the
\* publish raises and the exception leaves send_bulk_emails().
SendEmail ==
    /\ phase = "email"
    /\ ret.state = "running"
    /\ arg.i <= Len(arg.emails)
    /\ \E ok \in BOOLEAN :
          IF ok
          THEN /\ nc' = [nc EXCEPT !.published =
                            Append(@, [subject |-> "services.notification.email-send",
                                       body |-> EmailRequest(arg.emails[arg.i])])]
               /\ arg' = [arg EXCEPT !.i = @ + 1]
               /\ ret' = ret
          ELSE /\ ret' = [ret EXCEPT !.state = "raised"]
               /\ UNCHANGED << nc, arg >>
    /\ UNCHANGED << chatVars, js, watchVars >>

\* return len(emails)
SendBulkReturn ==
    /\ phase = "email"
    /\ ret.state = "running"
    /\ arg.i > Len(arg.emails)
    /\ ret' = [state |-> "returned", value |-> Len(arg.emails)]
    /\ UNCHANGED << chatVars, arg, nc, js, watchVars >>

NextEmail == SendEmail \/ SendBulkReturn

SpecEmail == InitEmail /\ [][NextEmail]_vars

\* ------------------------------------------------------------ MathClient
\* The numbers passed to divide and sqrt, and the numbers a reply carries.
Operands == -1 .. MaxOperand
Results == 0 .. MaxOperand

\* What json.loads makes of a reply: an object with or without an "error"
\* and a "result" member, or a value that is no object, which either
\* contains "error" (a list or string does) or does not.
MathResponses ==
    { [raw |-> "object", hasError |-> e, hasResult |-> TRUE, result |-> r] :
        e \in BOOLEAN, r \in Results }
    \cup { [raw |-> "object", hasError |-> e, hasResult |-> FALSE, result |-> 0] :
              e \in BOOLEAN }
    \cup { [raw |-> "value", hasError |-> e, hasResult |-> FALSE, result |-> 0] :
              e \in BOOLEAN }

NoResponse == [raw |-> "none", hasError |-> FALSE, hasResult |-> FALSE, result |-> 0]

\* The calls examined: divide(a, b) and sqrt(value); sqrt leaves b at its
\* default.
MathCalls ==
    { [op |-> "divide", a |-> a, b |-> b] : a \in Operands, b \in { 0, MaxOperand } }
    \cup { [op |-> "sqrt", a |-> a, b |-> 0] : a \in Operands }

\* request = {"operation": operation, "a": a, "b": b}
MathRequest(call) == [operation |-> call.op, a |-> call.a, b |-> call.b]

OptionalResultOrZero(resp) ==
    [state |-> "returned", none |-> FALSE,
     value |-> IF resp.hasResult THEN resp.result ELSE 0, response |-> resp]

\* if "error" in result: return None; return result.get("result")
\* on a value that has no "error" and is no object, .get raises.
OptionalResult(resp) ==
    IF resp.hasError
    THEN [state |-> "returned", none |-> TRUE, value |-> 0, response |-> resp]
    ELSE IF resp.raw # "object"
    THEN [state |-> "raised", none |-> FALSE, value |-> 0, response |-> resp]
    ELSE IF resp.hasResult
    THEN [state |-> "returned", none |-> FALSE, value |-> resp.result, response |-> resp]
    ELSE [state |-> "returned", none |-> TRUE, value |-> 0, response |-> resp]

InitMath ==
    /\ NoChat
    /\ phase = "math"
    /\ arg \in MathCalls
    /\ ret = [state |-> "called", none |-> FALSE, value |-> 0, response |-> NoResponse]
    /\ nc = EmptyNc
    /\ js = 0
    /\ NoWatch

\* divide() / sqrt() up to the await in calculate(): one request.
MathCall ==
    /\ phase = "math"
    /\ ret.state = "called"
    /\ nc' = [nc EXCEPT !.requested = Append(@, [subject |-> "services.math.calculate",
                                                 body |-> MathRequest(arg)])]
    /\ ret' = [ret EXCEPT !.state = "awaiting"]
    /\ UNCHANGED << chatVars, arg, js, watchVars >>

\* The reply arrives and the method returns what it makes of it.
MathReply ==
    /\ phase = "math"
    /\ ret.state = "awaiting"
    /\ \E resp \in MathResponses : ret' = OptionalResult(resp)
    /\ UNCHANGED << chatVars, arg, nc, js, watchVars >>

\* No reply within the timeout, or one that is no JSON: the request or
\* json.loads raises.
MathRaises ==
    /\ phase = "math"
    /\ ret.state = "awaiting"
    /\ ret' = [ret EXCEPT !.state = "raised"]
    /\ UNCHANGED << chatVars, arg, nc, js, watchVars >>

NextMath == MathCall \/ MathReply \/ MathRaises

SpecMath == InitMath /\ [][NextMath]_vars

\* ------------------------------------------------------------ scheduling
\* The steps the event loop takes for client c once they are ready: the
\* segments of its script and of its listener's cancellation. A sleep ends,
\* connect() and ws.close() have timeouts, cancel() is delivered at the
\* listener's next suspension. The frames the service sends and its closing
\* of a connection are not among them.
ClientStep(c) ==
    /\ c \in Clients
    /\ \/ Connect(c)
       \/ JoinRoom(c)
       \/ GetHistory(c)
       \/ GetUsers(c)
       \/ SendMessage(c)
       \/ LeaveRoom(c)
       \/ StopListener(c)
       \/ ListenerCancelled(c)
       \/ AwaitListener(c)
       \/ CloseDone(c)
       \/ ListenClosed(c)

\* main() up to the gather and its return: the POST has a timeout of 2 s.
MainStep ==
    \/ Main
    \/ EnsureRoomExists
    \/ RunDemoCreate
    \/ GatherDone
    \/ Crash

\* asyncio runs every task that is ready.
Fairness ==
    /\ WF_vars(MainStep)
    /\ \A c \in 1 .. MaxUsers : WF_vars(ClientStep(c))

SpecFair == Init /\ [][Next]_vars /\ Fairness

\* The same for the runs with at most one client.
SpecSoloFair == InitSolo /\ [][Next]_vars /\ Fairness

\* ------------------------------------------------ listen: history payload
\* The payload of a history frame: absent, a list of messages, an object
\* (whose "messages" field is a list, is absent, or is no list) or a value
\* of another type. The messages are JSON values the code never looks into.
HistoryPayloads ==
    { [shape |-> "list", field |-> "list", items |-> s] : s \in SeqsUpTo(Elements, MaxItems) }
    \cup { [shape |-> "dict", field |-> "list", items |-> s] : s \in SeqsUpTo(Elements, MaxItems) }
    \cup { [shape |-> "dict", field |-> x, items |-> << >>] : x \in { "absent", "other" } }
    \cup { [shape |-> s, field |-> "absent", items |-> << >>] : s \in { "absent", "other" } }

\* payload = data.get("payload", {})
PayloadOrDefault(p) ==
    IF p.shape = "absent" THEN [shape |-> "dict", field |-> "absent", items |-> << >>] ELSE p

HistoryMessagesDictOnly(p) ==
    IF p.shape = "dict" /\ p.field = "list" THEN [kind |-> "list", items |-> p.items]
    ELSE IF p.shape = "dict" /\ p.field = "other" THEN [kind |-> "other", items |-> << >>]
    ELSE [kind |-> "list", items |-> << >>]

\* The value of `messages` after the if-chain: the payload itself when it is
\* a list, payload.get("messages", []) of an object (which may be no list),
\* [] otherwise.
HistoryMessages(p) ==
    IF p.shape = "list" THEN [kind |-> "list", items |-> p.items]
    ELSE IF p.shape = "dict"
         THEN IF p.field = "list" THEN [kind |-> "list", items |-> p.items]
              ELSE IF p.field = "absent" THEN [kind |-> "list", items |-> << >>]
              ELSE [kind |-> "other", items |-> << >>]
    ELSE [kind |-> "list", items |-> << >>]

\* if isinstance(messages, list) and messages: the messages the History line
\* counts; no line is printed for none.
HistoryShown(m) == IF m.kind = "list" THEN m.items ELSE << >>

\* One pass of the history branch on any payload; nothing in it raises.
InitHistory ==
    /\ NoChat
    /\ phase = "history_call"
    /\ arg \in HistoryPayloads
    /\ ret = << >>
    /\ nc = << >>
    /\ js = 0
    /\ NoWatch

HistoryCall ==
    /\ phase = "history_call"
    /\ arg \in HistoryPayloads
    /\ LET m == HistoryMessages(PayloadOrDefault(arg)) IN
          ret' = [messages |-> HistoryShown(m),
                  lines |-> IF HistoryShown(m) # << >> THEN 1 ELSE 0,
                  raised |-> FALSE]
    /\ phase' = "history_returned"
    /\ UNCHANGED << usersArg, messagesArg, serverUrl, roomResult, httpPosts,
                    clientVars, conn, arg, nc, js, watchVars >>

NextHistory == HistoryCall

SpecHistory == InitHistory /\ [][NextHistory]_vars

\* ------------------------------------------- background jobs: watch_jobs
\* What a call of watch_jobs leaves alone: the chat demo.
sessionVars == << usersArg, messagesArg, serverUrl, roomResult, httpPosts, clientVars, conn >>

\* The ids main() collects from the create_job() responses: distinct ids,
\* here 1 .. n in the order of creation.
JobIds(n) == [i \in 1..n |-> i]

\* The statuses of the job API, and what a get_job() call can come to: a job
\* in one of them, or a requests.RequestException ("error").
Statuses == { "pending", "processing", "completed", "failed", "dead_letter" }

Outcomes == Statuses \cup { "error" }

\* if job["status"] in ["completed", "failed", "dead_letter"]
Terminal(status) == status \in { "completed", "failed", "dead_letter" }

TimedOutNever(e, w) == FALSE

\* if time.time() - start_time > max_wait
TimedOut(e, w) == e > w

\* Time is counted in poll intervals and only compared with max_wait, so
\* every time beyond max_wait is the same: max_wait + 1.
Later(e, d, w) == IF e + d > w THEN w + 1 ELSE e + d

AfterFetchAbortsOnError(i, n, outcome) == IF outcome = "error" THEN n + 1 ELSE i + 1

\* The for loop goes on to the next id after a fetch, whatever it gave: the
\* except clause is inside the loop body.
AfterFetch(i, n, outcome) == i + 1

SkippedNever(id, done) == FALSE

\* if job_id in completed_jobs: continue
Skipped(id, done) == id \in done

\* watch_jobs(client, job_ids, max_wait): start_time taken, completed_jobs
\* empty, before the first test of the while condition.
InitWatch ==
    /\ NoChat
    /\ phase = "while"
    /\ \E n \in 0..MaxJobs, w \in 0..MaxWait : arg = [job_ids |-> JobIds(n), max_wait |-> w]
    /\ ret = << >>
    /\ nc = << >>
    /\ js = 0
    /\ NoWatch

\* while len(completed_jobs) < len(job_ids): the test, and the timeout test
\* that opens the round; a round begins when both let it.
WhileTest ==
    /\ phase = "while"
    /\ IF Cardinality(completed_jobs) < Len(arg.job_ids)
       THEN IF TimedOut(elapsed, arg.max_wait)
            THEN /\ phase' = "returned"
                 /\ ret' = [finished |-> Cardinality(completed_jobs), timeout |-> TRUE]
                 /\ UNCHANGED << round, cursor, polled >>
            ELSE /\ phase' = "for"
                 /\ round' = round + 1
                 /\ cursor' = 1
                 /\ polled' = { }
                 /\ UNCHANGED ret
       ELSE /\ phase' = "returned"
            /\ ret' = [finished |-> Cardinality(completed_jobs), timeout |-> FALSE]
            /\ UNCHANGED << round, cursor, polled >>
    /\ UNCHANGED << sessionVars, arg, nc, js, completed_jobs, elapsed, job >>

\* for job_id in job_ids: an id already in completed_jobs is passed over.
SkipJob ==
    /\ phase = "for"
    /\ cursor <= Len(arg.job_ids)
    /\ Skipped(arg.job_ids[cursor], completed_jobs)
    /\ cursor' = cursor + 1
    /\ UNCHANGED << phase, sessionVars, arg, ret, nc, js, completed_jobs, elapsed, round, polled, job >>

\* job = client.get_job(job_id): the call returns a job, whose id is added to
\* completed_jobs when its status is terminal, or raises RequestException,
\* which is printed. The call takes some time.
GetJob ==
    /\ phase = "for"
    /\ cursor <= Len(arg.job_ids)
    /\ ~Skipped(arg.job_ids[cursor], completed_jobs)
    /\ \E outcome \in Outcomes, d \in { 0, 1 } :
          /\ job' = [id |-> arg.job_ids[cursor], status |-> outcome]
          /\ completed_jobs' = IF outcome # "error" /\ Terminal(outcome)
                               THEN completed_jobs \cup { arg.job_ids[cursor] }
                               ELSE completed_jobs
          /\ cursor' = AfterFetch(cursor, Len(arg.job_ids), outcome)
          /\ elapsed' = Later(elapsed, d, arg.max_wait)
    /\ polled' = polled \cup { arg.job_ids[cursor] }
    /\ UNCHANGED << phase, sessionVars, arg, ret, nc, js, round >>

\* The round is over: time.sleep(POLL_INTERVAL) unless every job is finished.
EndRound ==
    /\ phase = "for"
    /\ cursor > Len(arg.job_ids)
    /\ phase' = "while"
    /\ elapsed' = IF Cardinality(completed_jobs) < Len(arg.job_ids)
                  THEN Later(elapsed, 1, arg.max_wait)
                  ELSE elapsed
    /\ UNCHANGED << sessionVars, arg, ret, nc, js, completed_jobs, cursor, round, polled, job >>

NextWatch == WhileTest \/ SkipJob \/ GetJob \/ EndRound

SpecWatch == InitWatch /\ [][NextWatch]_vars

\* Every statement of watch_jobs that is reached is executed, and every
\* get_job() call returns or raises.
SpecWatchFair == InitWatch /\ [][NextWatch]_vars /\ WF_vars(NextWatch)

\* ------------------------------------------ python-nats-client-demo: main
\* The requests demo_math_service makes, the messages demo_email_service
\* publishes, and the payments demo_payment_service publishes and then
\* queries.
DemoMathRequests == 8
DemoEmails == 5
DemoPayments == 3

\* args.math_only, args.email_only, args.payment_only
DemoArgs == [math_only : BOOLEAN, email_only : BOOLEAN, payment_only : BOOLEAN]

\* run_all = not (args.math_only or args.email_only or args.payment_only)
RunAll(a) == ~(a.math_only \/ a.email_only \/ a.payment_only)

\* The demos main() runs on these arguments.
Selected(a) ==
    { d \in { "demo_math", "demo_email", "demo_payment" } :
        \/ RunAll(a)
        \/ d = "demo_math" /\ a.math_only
        \/ d = "demo_email" /\ a.email_only
        \/ d = "demo_payment" /\ a.payment_only }

\* The three ifs of main(), in their order: the position after the demo
\* `after` ("connect" for none) has ended.
AfterDemo(after, a) ==
    LET order == << "connect", "demo_math", "demo_email", "demo_payment" >>
        place == CHOOSE i \in 1..4 : order[i] = after
        rest == { i \in (place + 1)..4 : order[i] \in Selected(a) }
    IN  IF rest = { } THEN "drain"
        ELSE order[CHOOSE i \in rest : \A j \in rest : i <= j]

OnlyWhenSucceeded(raised) == ~raised

\* finally: await nc.drain() runs however the try block was left.
FinallyDrains(raised) == TRUE

\* The connection before nats.connect() was called.
NoNc == [connected |-> FALSE, sent |-> 0, step |-> 0, ran |-> { }, raised |-> FALSE,
         drains |-> 0]

InitNats ==
    /\ NoChat
    /\ phase = "nats_connect"
    /\ arg \in DemoArgs
    /\ ret = << >>
    /\ nc = NoNc
    /\ js = 0
    /\ NoWatch

\* The demo at position d is entered, or the finally clause.
Enter(d) == [nc EXCEPT !.step = 0, !.ran = IF d = "drain" THEN @ ELSE @ \cup { d }]

\* nc = await nats.connect(args.nats_url): on any Exception main() prints
\* the failure and returns 1.
NatsConnect ==
    /\ phase = "nats_connect"
    /\ \E ok \in BOOLEAN :
          IF ok
          THEN /\ phase' = AfterDemo("connect", arg)
               /\ nc' = [Enter(AfterDemo("connect", arg)) EXCEPT !.connected = TRUE]
               /\ UNCHANGED ret
          ELSE /\ phase' = "nats_returned"
               /\ ret' = 1
               /\ UNCHANGED nc
    /\ UNCHANGED << sessionVars, arg, js, watchVars >>

\* One request or publish of a demo that catches nothing: it is issued, and
\* either the demo goes on (to the next demo after its last one) or the
\* exception leaves the try block of main().
Issue(d, count) ==
    /\ phase = d
    /\ nc.step < count
    /\ \E raises \in BOOLEAN :
          IF raises
          THEN /\ phase' = "drain"
               /\ nc' = [nc EXCEPT !.sent = @ + 1, !.raised = TRUE]
          ELSE IF nc.step + 1 < count
               THEN /\ phase' = d
                    /\ nc' = [nc EXCEPT !.sent = @ + 1, !.step = @ + 1]
               ELSE /\ phase' = AfterDemo(d, arg)
                    /\ nc' = [Enter(AfterDemo(d, arg)) EXCEPT !.sent = @ + 1]
    /\ UNCHANGED << sessionVars, arg, ret, js, watchVars >>

\* response = await nc.request("services.math.calculate", ...)
DemoMathRequest == phase = "demo_math" /\ Issue("demo_math", DemoMathRequests)

\* await nc.publish("services.notification.email-send", ...)
DemoEmailPublish == phase = "demo_email" /\ Issue("demo_email", DemoEmails)

\* await js.publish(...) for each payment, then await nc.request(
\* "services.payment.status", ...) for each: every Exception of either is
\* caught and printed inside the loop.
DemoPaymentStep ==
    /\ phase = "demo_payment"
    /\ nc.step < 2 * DemoPayments
    /\ IF nc.step + 1 < 2 * DemoPayments
       THEN /\ phase' = "demo_payment"
            /\ nc' = [nc EXCEPT !.sent = @ + 1, !.step = @ + 1]
       ELSE /\ phase' = "drain"
            /\ nc' = [nc EXCEPT !.sent = @ + 1, !.step = 0]
    /\ UNCHANGED << sessionVars, arg, ret, js, watchVars >>

\* finally: await nc.drain(); then return 0, or the exception goes on.
Drain ==
    /\ phase = "drain"
    /\ nc' = [nc EXCEPT !.drains = IF FinallyDrains(nc.raised) THEN @ + 1 ELSE @]
    /\ ret' = IF nc.raised THEN "raised" ELSE 0
    /\ phase' = "nats_returned"
    /\ UNCHANGED << sessionVars, arg, js, watchVars >>

NextNats == NatsConnect \/ DemoMathRequest \/ DemoEmailPublish \/ DemoPaymentStep \/ Drain

SpecNats == InitNats /\ [][NextNats]_vars

\* ================================================================ claims
MessagesOf(c) == Count(out[c], "message")
TotalMessages == SumOver([c \in Clients |-> MessagesOf(c)], Clients)
Refused == { c \in Clients : pc[c] = "aborted" }

\* join, history, users, n messages, leave
FullScript(n) ==
    << "join", "history", "users" >> \o [i \in 1..n |-> "message"] \o << "leave" >>

\* C1, as claimed: when the run completes, the clients together have sent
\* exactly userCount * messagesPerUser message frames.
C1_TotalIsUsersTimesMessages ==
    phase = "done" => TotalMessages = usersArg * messagesArg

\* C1, amended: when the run completes there is one client per requested
\* user, every client that connected has sent exactly messagesPerUser
\* message frames and every client whose connect failed has sent none; the
\* total is userCount * messagesPerUser when every connect succeeded.
C1_MessagesPerConnectedClient ==
    phase = "done" =>
        /\ Cardinality(Clients) = usersArg
        /\ \A c \in Clients :
              MessagesOf(c) = IF pc[c] = "aborted" THEN 0 ELSE messagesArg
        /\ TotalMessages = (usersArg - Cardinality(Refused)) * messagesArg

C1_Witness ==
    /\ phase = "done"
    /\ usersArg = 2
    /\ messagesArg = 2
    /\ Refused = {}
    /\ TotalMessages = 4

\* C2: a client whose send fails does not crash the run and no other client
\* is cancelled because of it.
C2_FailureIsolated ==
    \A c \in Clients :
        pc[c] = "raised" =>
            /\ phase # "crashed"
            /\ \A d \in Clients \ { c } : pc[d] # "cancelled"

\* C3: a refused connect is logged once by its client, which then sends
\* nothing and starts no listener; it neither crashes the run nor cancels
\* another client, and when the run completes with exactly one refused
\* client every other client has sent its full script and is closed, and
\* exactly one connection error was logged.
C3_RefusedConnectIsolated ==
    /\ \A c \in Clients :
          pc[c] = "aborted" =>
              /\ connErr[c] = 1
              /\ out[c] = << >>
              /\ listener[c] = "none"
              /\ ws[c] = "none"
    /\ (\A c \in Clients : ws[c] # "lost") =>
          /\ phase # "crashed"
          /\ \A c \in Clients : pc[c] \notin { "raised", "cancelled" }
    /\ (phase = "done" /\ Cardinality(Refused) = 1) =>
          /\ SumOver(connErr, Clients) = 1
          /\ \A d \in Clients \ Refused :
                /\ pc[d] = "finished"
                /\ out[d] = FullScript(messagesArg)
                /\ ws[d] \in { "closed", "lost" }
                /\ listener[d] \in { "ended", "cancelled" }

C3_Witness ==
    /\ phase = "done"
    /\ usersArg = 2
    /\ Cardinality(Refused) = 1
    /\ \E d \in Clients : pc[d] = "finished" /\ ws[d] = "closed"

\* C4: no client's script has ended (returned, raised or been cancelled)
\* while its listener task is still pending.
C4_NoDanglingListener ==
    \A c \in Clients :
        pc[c] \in { "finished", "aborted", "raised", "cancelled" } =>
            listener[c] \notin { "running", "cancelling" }

\* C5: a client that has started or completed closing its own transport has
\* running = False.
C5_RunningFalseBeforeClose ==
    \A c \in Clients :
        (ws[c] = "closed" \/ pc[c] = "closing") => ~running[c]

C5_Witness == \E c \in Clients : ws[c] = "closed" /\ pc[c] = "finished"

\* C6: with --users below 1 or above the pool size, or --messages below 1,
\* the program ends rejected with no room request, no client and no connect.
C6_InvalidArgsNoNetwork ==
    (usersArg < 1 \/ usersArg > PoolSize \/ messagesArg < 1) =>
        /\ phase \in { "main", "rejected" }
        /\ httpPosts = 0
        /\ roomResult = "none"
        /\ Clients = {}

C6_Witness == phase = "rejected" /\ usersArg > PoolSize /\ messagesArg >= 1

ProvisioningFailed == roomResult \in { "http_error", "unreachable" }

C8_ConflictAsCreated ==
    /\ [](roomResult = "conflict" =>
            /\ phase \in { "create", "gather", "done", "crashed" }
            /\ phase # "create" => Cardinality(Clients) = usersArg
            /\ phase = "crashed" => \E c \in Clients : pc[c] = "raised")
    /\ [][(phase = "provision" /\ roomResult' \in { "created", "conflict" }) =>
            /\ phase' = "create"
            /\ httpPosts' = httpPosts + 1
            /\ UNCHANGED << mainVars, clientVars >>]_vars

C8_Witness ==
    /\ roomResult = "conflict"
    /\ phase = "done"
    /\ Refused = {}
    /\ \A c \in Clients : pc[c] = "finished" /\ out[c] = FullScript(messagesArg)
    /\ usersArg = 1

\* C9, as claimed: a client that has sent a message frame has observed the
\* joined confirmation.
C9_MessageOnlyWhenJoined ==
    \A c \in Clients : MessagesOf(c) > 0 => sawJoined[c]

\* C9, amended: a client sends message frames only after it has sent its
\* join, history and users frames, in that order; the joined confirmation
\* need not have been observed.
C9_MessageOnlyAfterJoinSent ==
    \A c \in Clients :
        \A i \in DOMAIN out[c] :
            out[c][i] = "message" =>
                /\ i > 3
                /\ SubSeq(out[c], 1, 3) = << "join", "history", "users" >>

C9_Witness ==
    \E c \in Clients : MessagesOf(c) = messagesArg /\ messagesArg = 2 /\ ~sawJoined[c]
                       /\ pc[c] = "finished"

\* C10: a pass of the listen loop that reads a frame that is not JSON logs
\* one error line and leaves the listener running.
C10_GarbageKeepsListening ==
    [][\A c \in Clients :
          (/\ inbound' = inbound - 1
           /\ heard'.client = c
           /\ heard'.frame.raw = "garbage"
           /\ running[c]) =>
              /\ listener'[c] = "running"
              /\ errors'[c] = errors[c] + 1
              /\ lines'[c] = lines[c]]_vars

C10_Witness ==
    /\ heard.frame.raw = "garbage"
    /\ heard.client \in Clients
    /\ listener[heard.client] = "running"
    /\ errors[heard.client] = 2
    /\ inbound = 0

\* C11: a pass of the listen loop that reads well-formed JSON of an unexpected
\* shape (a value that is no object, no type, a payload of another type than
\* its type expects) logs no error line and leaves the listener running.
C11_UnexpectedShapeKeepsListening ==
    [][\A c \in Clients :
          (/\ inbound' = inbound - 1
           /\ heard'.client = c
           /\ heard'.frame.raw # "garbage"
           /\ heard'.frame.type # "error"
           /\ running[c]) =>
              /\ listener'[c] = "running"
              /\ errors'[c] = errors[c]]_vars

NameList(items) == [i \in 1..Len(items) |-> items[i].name]
AllOfKind(items, k) == \A i \in 1..Len(items) : items[i].kind = k /\ items[i].name # NoName
IsKept(u) == u.kind = "str" \/ (u.kind = "dict" /\ u.name # NoName)

\* C12: _extract_usernames returns the same usernames in the same order for
\* a bare list of strings, an object whose users field lists those strings
\* and an object whose users field lists objects carrying them; elements of
\* another type are dropped in place; any other payload gives the empty list.
C12_ExtractUsernamesShapes ==
    (phase = "returned" /\ arg \in UsersPayloads) =>
        LET items == arg.items
            listed == arg.field = "list" IN
        /\ (arg.shape = "list" /\ AllOfKind(items, "str")) => ret = NameList(items)
        /\ (arg.shape = "dict" /\ listed /\ AllOfKind(items, "str")) => ret = NameList(items)
        /\ (arg.shape = "dict" /\ listed /\ AllOfKind(items, "dict")) => ret = NameList(items)
        /\ arg.shape = "list" => ret = NameList(SelectSeq(items, IsStr))
        /\ (arg.shape = "dict" /\ listed) => ret = NameList(SelectSeq(items, IsKept))
        /\ (arg.shape = "other" \/ ~listed) => ret = << >>

C12_Witness ==
    /\ phase = "returned"
    /\ arg \in UsersPayloads
    /\ arg.shape = "dict"
    /\ Len(arg.items) = 2
    /\ arg.items[1].kind = "other"
    /\ arg.items[2] = [kind |-> "dict", name |-> 2]
    /\ ret = << 2 >>

\* C13: the clients run_demo creates carry pairwise distinct usernames taken
\* from the pool, and there is one client per requested user.
C13_DistinctUsernames ==
    phase = "gather" =>
        /\ Cardinality(Clients) = usersArg
        /\ \A c \in Clients : username[c] \in USERNAMES
        /\ \A c, d \in Clients : c # d => username[c] # username[d]

C13_Witness ==
    /\ phase = "gather"
    /\ usersArg = MaxUsers
    /\ Cardinality(Clients) = MaxUsers
    /\ username[1] = PoolSize
    /\ username[2] = 1

\* C14: close() raises on no client, whether it never connected or was
\* closed before; once a close() has returned its client has running false
\* and no open transport, and a further close() changes neither.
C14_CloseIdempotent ==
    /\ [](\A c \in Clients :
            /\ pc[c] # "raised"
            /\ (ret[c] >= 1 /\ pc[c] = "idle") => (~running[c] /\ ws[c] # "open"))
    /\ [][\A c \in Clients :
            ret[c] >= 1 => (running'[c] = running[c] /\ ws'[c] = ws[c])]_vars

C14_Witness ==
    /\ \E c \in Clients : ret[c] = 2 /\ ws[c] = "none" /\ ~running[c] /\ pc[c] = "idle"
    /\ \E c \in Clients : ret[c] = 2 /\ ws[c] = "closed" /\ ~running[c] /\ pc[c] = "idle"

Reads(c, t) ==
    /\ inbound' = inbound - 1
    /\ heard'.client = c
    /\ heard'.frame.raw = "object"
    /\ heard'.frame.type = t
    /\ running[c]

\* The log lines of either kind the step adds for c.
NewLines(c) == (lines'[c] - lines[c]) + (errors'[c] - errors[c])

\* C16: a chat_message frame carrying the client's own username adds no log
\* line; one carrying another user's username adds exactly one.
C16_OwnMessageSilent ==
    [][\A c \in Clients :
          (Reads(c, "chat_message") /\ heard'.frame.payload.shape = "dict") =>
              LET sender == heard'.frame.payload.username IN
              /\ sender = username[c] => NewLines(c) = 0
              /\ (sender # username[c] /\ sender # NoName) =>
                    (lines'[c] = lines[c] + 1 /\ errors'[c] = errors[c])]_vars

C16_Witness ==
    /\ heard.client \in Clients
    /\ heard.frame.type = "chat_message"
    /\ heard.frame.payload.shape = "dict"
    /\ heard.frame.payload.username = username[heard.client]
    /\ lines[heard.client] = 1
    /\ errors[heard.client] = 0
    /\ inbound = 0

\* C17, as claimed: every user_joined, user_left, history, users or error
\* frame adds exactly one log line, whatever its payload.
C17_OneLinePerFrame ==
    [][\A c \in Clients :
          \A t \in { "user_joined", "user_left", "history", "users", "error" } :
              Reads(c, t) => NewLines(c) = 1]_vars

\* C17, amended: a users frame always adds one log line; a user_left or
\* error frame adds one when its payload is an object; a user_joined frame
\* adds one when its payload is an object naming another user; a history
\* frame adds one when it carries a non-empty list of messages; in every
\* other case the frame adds no line.
C17_LinesPerFrame ==
    [][\A c \in Clients :
          LET p == heard'.frame.payload
              object == p.shape = "dict"
              one(b) == NewLines(c) = (IF b THEN 1 ELSE 0) IN
          /\ Reads(c, "users") => one(TRUE)
          /\ Reads(c, "user_left") => one(object)
          /\ Reads(c, "error") => one(object) /\ lines'[c] = lines[c]
          /\ Reads(c, "user_joined") => one(object /\ p.username # username[c])
          /\ Reads(c, "history") =>
                one(\/ p.shape = "list" /\ p.size > 0
                    \/ object /\ p.messages = "some")]_vars

C17_Witness ==
    /\ heard.client \in Clients
    /\ heard.frame.type = "history"
    /\ heard.frame.payload.shape = "dict"
    /\ heard.frame.payload.messages = "empty"
    /\ lines[heard.client] = 0
    /\ errors[heard.client] = 0
    /\ listener[heard.client] = "running"
    /\ inbound = MaxFrames - 1

\* C18: before any submit_payment call jetstream() was never invoked; after
\* one or more it was invoked exactly once and every publish went through
\* that one context.
C18_JetstreamOnce ==
    phase = "payment" =>
        IF nc.streamed = << >>
        THEN nc.contexts = 0 /\ js = 0
        ELSE /\ nc.contexts = 1
             /\ \A i \in 1 .. Len(nc.streamed) : nc.streamed[i].ctx = 1

C18_Witness ==
    /\ phase = "payment"
    /\ Len(nc.streamed) = 2
    /\ nc.contexts = 1
    /\ ret.returned = 1
    /\ ret.raised = 1
    /\ Len(nc.requested) = 1

\* C19: send_bulk_emails issues no request and publishes the emails of its
\* list in order, each on services.notification.email-send with that
\* email's to, subject and body; when it returns it has published all n of
\* them and returns n, which for the empty list is no publish and 0.
C19_BulkPublishesInOrder ==
    phase = "email" =>
        /\ nc.requested = << >>
        /\ nc.streamed = << >>
        /\ Len(nc.published) <= Len(arg.emails)
        /\ \A i \in 1 .. Len(nc.published) :
              /\ nc.published[i].subject = "services.notification.email-send"
              /\ nc.published[i].body.to = arg.emails[i].to
              /\ nc.published[i].body.subject = arg.emails[i].subject
              /\ nc.published[i].body.body = arg.emails[i].body
        /\ ret.state = "returned" =>
              /\ Len(nc.published) = Len(arg.emails)
              /\ ret.value = Len(arg.emails)

C19_Witness ==
    /\ phase = "email"
    /\ ret.state = "returned"
    /\ ret.value = 2
    /\ Len(nc.published) = 2
    /\ nc.published[1].body # nc.published[2].body

OneMathRequest ==
    IF ret.state = "called"
    THEN nc.requested = << >>
    ELSE /\ Len(nc.requested) = 1
         /\ nc.requested[1].subject = "services.math.calculate"
         /\ nc.requested[1].body.operation = arg.op
         /\ nc.requested[1].body.a = arg.a

\* C20, as claimed: divide and sqrt send one request on
\* services.math.calculate and return None exactly when the response has an
\* error field; otherwise they return the response's result value.
C20_NoneIffError ==
    phase = "math" =>
        /\ OneMathRequest
        /\ nc.published = << >>
        /\ ret.state = "returned" =>
              LET error == ret.response.raw = "object" /\ ret.response.hasError IN
              /\ ret.none <=> error
              /\ ~error => ret.value = ret.response.result

\* C20, amended: divide and sqrt send one request on
\* services.math.calculate and publish nothing; they return None when the
\* response contains error, and otherwise the response's result value
\* unchanged when it has one and None when it has none.
C20_NoneOnErrorOrNoResult ==
    phase = "math" =>
        /\ OneMathRequest
        /\ nc.published = << >>
        /\ ret.state = "returned" =>
              LET r == ret.response IN
              /\ r.hasError => ret.none
              /\ (~r.hasError /\ r.hasResult) => (~ret.none /\ ret.value = r.result)
              /\ (~r.hasError /\ ~r.hasResult) => ret.none

C20_Witness ==
    /\ phase = "math"
    /\ ret.state = "returned"
    /\ arg.op = "sqrt"
    /\ ret.response.raw = "object"
    /\ ~ret.response.hasError
    /\ ~ret.response.hasResult
    /\ ret.none

IsPrefix(s, t) == Len(s) <= Len(t) /\ \A i \in 1 .. Len(s) : s[i] = t[i]

\* C21: what a client has sent is at every moment a leading part of join,
\* history, users, its messages, leave, in that order; the client closes its
\* transport only when all of it, the leave included, has been sent, and
\* sends nothing after the leave.
C21_ScriptOrder ==
    \A c \in Clients :
        /\ IsPrefix(out[c], FullScript(messagesArg))
        /\ (ws[c] = "closed" \/ pc[c] \in { "stop", "await", "closing", "finished" }) =>
              out[c] = FullScript(messagesArg)

C21_Witness ==
    /\ Cardinality(Clients) = 2
    /\ messagesArg = MaxMsgs
    /\ \E c \in Clients :
          /\ ws[c] = "closed"
          /\ pc[c] = "finished"
          /\ out[c] = FullScript(MaxMsgs)
    /\ \E c \in Clients : pc[c] = "raised" /\ out[c] = << "join", "history", "users", "message" >>

\* C22: a client has no listener before its connect succeeded and has one
\* once its join was sent; a listener is started only for a client that has
\* none, has connected and has sent nothing yet, so no client ever has two.
C22_OneListenerAfterConnect ==
    /\ [](\A c \in Clients :
            /\ listener[c] # "none" => ws[c] # "none"
            /\ pc[c] \in { "connect", "aborted" } => listener[c] = "none"
            /\ out[c] # << >> => listener[c] # "none")
    /\ [][\A c \in Clients :
            (listener'[c] = "running" /\ listener[c] # "running") =>
                /\ listener[c] = "none"
                /\ pc[c] = "join"
                /\ ws[c] # "none"
                /\ out[c] = << >>]_vars

C22_Witness ==
    \E c \in Clients :
        /\ listener[c] = "running"
        /\ ws[c] = "open"
        /\ out[c] = << "join", "history" >>

\* A step of c's shutdown: the stop of its listener, the listener's
\* cancellation, the end of the wait for it, the close of its transport.
ShutdownStep(c) ==
    \/ pc[c] = "stop" /\ pc'[c] = "await"
    \/ pc[c] = "await" /\ pc'[c] = "closing"
    \/ pc[c] = "closing" /\ pc'[c] = "finished"
    \/ phase' = phase /\ listener[c] = "cancelling" /\ listener'[c] = "cancelled"

\* C23: a client closes its transport only once its own listener has ended
\* or was cancelled; the steps of one client's shutdown cancel that client's
\* listener and leave the running flag, the listener and the transport of
\* every other client as they were.
C23_ShutdownTouchesOwnListener ==
    /\ [](\A c \in Clients :
            (pc[c] \in { "closing", "finished" } \/ ws[c] = "closed") =>
                listener[c] \in { "ended", "cancelled" })
    /\ [][\A c \in Clients :
            ShutdownStep(c) =>
                /\ (pc[c] = "stop" /\ listener[c] = "running") => listener'[c] = "cancelling"
                /\ \A d \in Clients \ { c } :
                      /\ running'[d] = running[d]
                      /\ listener'[d] = listener[d]
                      /\ ws'[d] = ws[d]]_vars

C23_Witness ==
    /\ Cardinality(Clients) = 2
    /\ \E c \in Clients :
          /\ ws[c] = "closed"
          /\ listener[c] = "cancelled"
          /\ ~running[c]
          /\ \E d \in Clients \ { c } :
                running[d] /\ listener[d] = "running" /\ ws[d] = "open"

\* The run was admitted and the service accepts every connection and send.
Accepting ==
    /\ phase # "rejected"
    /\ \A c \in Clients : ws[c] # "lost" /\ pc[c] # "aborted"

AllClosed ==
    /\ phase = "done"
    /\ Clients # { }
    /\ \A c \in Clients : pc[c] = "finished" /\ ws[c] = "closed"

\* C24: the run is reported complete only when every client has finished
\* its script and closed, or gave up on a refused connect; and when the
\* service accepts every connection and send, the run eventually is complete
\* with every client closed.
C24_CompletesAfterAllSessions ==
    /\ [](phase = "done" => \A c \in Clients : pc[c] \in { "finished", "aborted" })
    /\ ([]Accepting => <>AllClosed)

C24_Witness ==
    /\ AllClosed
    /\ Cardinality(Clients) = MaxUsers
    /\ \A c \in Clients : out[c] = FullScript(MaxMsgs) /\ listener[c] = "cancelled"

ScriptOver(c) == pc[c] \in { "finished", "raised", "cancelled" }

\* C25: a client that has sent its join and has read no joined frame does
\* not wait for one: unless the frame arrives after all, it goes on until
\* its script is over, which with an open transport is after history, users,
\* its messages, leave and close.
C25_JoinWaitBounded ==
    /\ \A c \in 1 .. MaxUsers :
          []((c \in Clients /\ pc[c] = "history" /\ ~sawJoined[c]) =>
                <>(c \in Clients /\ (sawJoined[c] \/ ScriptOver(c))))
    /\ [](\A c \in Clients :
            (pc[c] = "finished" /\ ~sawJoined[c]) => out[c] = FullScript(messagesArg))

C25_Witness ==
    \E c \in Clients :
        /\ pc[c] = "finished"
        /\ ~sawJoined[c]
        /\ ws[c] = "closed"
        /\ out[c] = FullScript(MaxMsgs)
        /\ lines[c] = 0

\* C26: a client whose connect failed has logged the failure, has no
\* transport and no listener and has sent nothing, and stays that way; a
\* failed connect raises nothing: only a client that had connected ever
\* raises.
C26_FailedConnectEndsSession ==
    /\ [](\A c \in Clients :
            /\ pc[c] = "aborted" =>
                  /\ connErr[c] = 1
                  /\ ws[c] = "none"
                  /\ listener[c] = "none"
                  /\ out[c] = << >>
            /\ pc[c] = "raised" => ws[c] # "none"
            /\ ws[c] = "none" => out[c] = << >> /\ listener[c] = "none")
    /\ [][\A c \in Clients :
            /\ pc[c] = "aborted" => pc'[c] = "aborted"
            /\ (pc[c] = "connect" /\ pc'[c] # "connect" /\ ws'[c] = "none") =>
                  pc'[c] \in { "aborted", "cancelled" }]_vars

C26_Witness ==
    /\ phase = "done"
    /\ serverUrl = "ws"
    /\ \E c \in Clients :
          /\ pc[c] = "aborted"
          /\ connErr[c] = 1
          /\ out[c] = << >>
          /\ listener[c] = "none"

SendSteps == { "join", "history", "users", "message", "leave" }
InError(c) == pc[c] \in { "aborted", "raised" }

\* The step of c's script that finds its transport failed.
FailedStep(c) ==
    /\ \/ JoinRoom(c)
       \/ GetHistory(c)
       \/ GetUsers(c)
       \/ SendMessage(c)
       \/ LeaveRoom(c)
    /\ pc'[c] = "raised"

\* C27: at every step of its script a client can lose its transport, and
\* the step that finds the transport failed puts it in an error state
\* without sending; a client in an error state stays in it, sends nothing
\* more, and its transport changes at most by being closed.
C27_ErrorAbsorbing ==
    /\ [](\A c \in Clients :
            /\ (Live /\ pc[c] \in SendSteps /\ ws[c] = "open") => ENABLED ServerClose(c)
            /\ (Live /\ pc[c] \in SendSteps /\ ws[c] # "open") => ENABLED FailedStep(c))
    /\ [][\A c \in Clients :
            /\ (phase' = phase /\ pc[c] \in SendSteps /\ ws[c] # "open" /\ pc'[c] # pc[c]) =>
                  (pc'[c] = "raised" /\ out'[c] = out[c])
            /\ InError(c) =>
                  /\ pc'[c] = pc[c]
                  /\ out'[c] = out[c]
                  /\ ws'[c] \in { ws[c], "closed" }]_vars

C27_Witness ==
    \E c \in Clients :
        /\ pc[c] = "raised"
        /\ ws[c] = "lost"
        /\ messagesArg = MaxMsgs
        /\ out[c] = << "join", "history", "users" >> \o [i \in 1 .. MaxMsgs |-> "message"]
        /\ phase = "crashed"

\* C28: a client whose running flag is false has no listener reading, and
\* from the step that clears the flag on, no step adds a log line or an error
\* line for it or reads a frame for it; the listener's cancellation is
\* reported as nothing.
C28_SilentAfterStop ==
    /\ [](\A c \in Clients : ~running[c] => listener[c] # "running")
    /\ [][\A c \in Clients :
            ~running'[c] =>
                /\ lines'[c] = lines[c]
                /\ errors'[c] = errors[c]
                /\ (heard' # heard => heard'.client # c)]_vars

C28_Witness ==
    \E c \in Clients :
        /\ ~running[c]
        /\ listener[c] = "cancelled"
        /\ pc[c] = "finished"
        /\ lines[c] = 0
        /\ errors[c] = 0
        /\ inbound > 0


\* C29: no two clients hold the same connection object, a client holds one
\* exactly when it has connected, and every step that sends a frame, closes a
\* transport or reads a frame belongs to one client (its script at the
\* matching position, or its running listener) and leaves the transport, the
\* frames and the script position of every other client as they were.
C29_TransportOwned ==
    /\ [](\A c, d \in Clients : (c # d /\ conn[c] # 0) => conn[c] # conn[d])
    /\ [](\A c \in Clients : (conn[c] # 0) <=> (ws[c] # "none"))
    /\ [][\A c \in Clients :
            LET OthersKept == \A d \in Clients \ { c } :
                                  /\ ws'[d] = ws[d]
                                  /\ out'[d] = out[d]
                                  /\ conn'[d] = conn[d]
                                  /\ pc'[d] = pc[d]
            IN  /\ out'[c] # out[c] =>
                      /\ conn[c] # 0
                      /\ pc[c] = out'[c][Len(out'[c])]
                      /\ OthersKept
                /\ (ws'[c] = "closed" /\ ws[c] # "closed") =>
                      /\ conn[c] # 0
                      /\ pc[c] = "closing"
                      /\ OthersKept
                /\ (heard' # heard /\ heard'.client = c) =>
                      /\ conn[c] # 0
                      /\ listener[c] = "running"
                      /\ OthersKept
                      /\ \A d \in Clients \ { c } :
                            /\ lines'[d] = lines[d]
                            /\ errors'[d] = errors[d]
                            /\ sawJoined'[d] = sawJoined[d]]_vars

C29_Witness ==
    /\ Cardinality(Clients) = MaxUsers
    /\ \A c \in Clients : conn[c] # 0
    /\ Cardinality(Range(conn)) = MaxUsers
    /\ \E c, d \in Clients :
          /\ ws[c] = "closed"
          /\ pc[c] = "finished"
          /\ ws[d] = "open"
          /\ out[d] = << "join" >>
          /\ heard.client = d


\* The clients whose script has begun: those past the start of their task.
Begun(p) == { c \in DOMAIN p : p[c] # "delay" }

C31_HistoryDecoding ==
    phase = "history_returned" =>
        /\ ~ret.raised
        /\ ret.messages = (IF arg.field = "list" THEN arg.items ELSE << >>)
        /\ ret.lines = (IF arg.field = "list" /\ Len(arg.items) > 0 THEN 1 ELSE 0)

C31_Witness ==
    /\ phase = "history_returned"
    /\ arg.shape = "list"
    /\ Len(arg.items) = MaxItems
    /\ ret.messages = arg.items
    /\ ret.lines = 1


\* The ids watch_jobs is given.
Watched == Range(arg.job_ids)

C33_FinishedSetGrows ==
    /\ [](completed_jobs \subseteq Watched)
    /\ [][completed_jobs \subseteq completed_jobs']_vars
    /\ [][\A id \in completed_jobs' \ completed_jobs :
            /\ job'.id = id
            /\ job'.status \in { "completed", "failed", "dead_letter" }
            /\ id \in polled' \ polled]_vars
    /\ [][\A id \in polled' \ polled : id \notin completed_jobs]_vars

C33_Witness ==
    /\ phase = "for"
    /\ round = 2
    /\ completed_jobs = { 1 }
    /\ polled = { 2 }
    /\ job = [id |-> 2, status |-> "processing"]
    /\ cursor = Len(arg.job_ids) + 1


\* C34: a fetch that raised RequestException leaves completed_jobs as it was
\* and the round goes on with the next id; in every round every id before
\* the place the loop has reached was fetched in this round or is finished,
\* so that when a round is over every unfinished id, one whose fetch failed
\* included, was fetched in it, and so it is in every round that begins.
C34_FetchErrorKeepsRound ==
    /\ [][(polled' \ polled # { } /\ job'.status = "error") =>
            /\ completed_jobs' = completed_jobs
            /\ job'.id \notin completed_jobs'
            /\ phase' = "for"
            /\ round' = round
            /\ cursor' = cursor + 1]_vars
    /\ [](phase = "for" =>
            \A k \in 1 .. (cursor - 1) : arg.job_ids[k] \in completed_jobs \cup polled)
    /\ [][(phase = "for" /\ phase' = "while") => Watched \subseteq completed_jobs \cup polled]_vars
    /\ [][(phase = "while" /\ phase' = "for") => (polled' = { } /\ cursor' = 1)]_vars

C34_Witness ==
    /\ phase = "for"
    /\ Len(arg.job_ids) = MaxJobs
    /\ round = 2
    /\ cursor = 2
    /\ polled = { 1 }
    /\ completed_jobs = { }
    /\ job = [id |-> 1, status |-> "error"]


\* C35: when nats.connect() failed main() returns 1 with no demo entered,
\* nothing sent and no drain; when it succeeded the connection is drained
\* exactly once by the time main() is left, after every selected demo when
\* none raised and after the demo that raised otherwise; a drain is the last
\* thing done on the connection: every request and publish is issued on a
\* connected connection not yet drained.
C35_DrainOnceAfterDemos ==
    /\ [](phase = "nats_returned" =>
            IF nc.connected
            THEN /\ nc.drains = 1
                 /\ nc.ran \subseteq Selected(arg)
                 /\ IF nc.raised THEN ret = "raised" /\ nc.ran # { }
                    ELSE ret = 0 /\ nc.ran = Selected(arg)
            ELSE ret = 1 /\ nc.drains = 0 /\ nc.ran = { } /\ nc.sent = 0)
    /\ [](nc.drains > 0 => phase = "nats_returned")
    /\ [][nc'.sent # nc.sent => (nc.connected /\ nc.drains = 0 /\ nc'.drains = 0)]_vars
    /\ [][nc'.drains # nc.drains => (nc.drains = 0 /\ nc'.drains = 1 /\ nc'.sent = nc.sent)]_vars

C35_Witness ==
    /\ phase = "nats_returned"
    /\ RunAll(arg)
    /\ nc.raised
    /\ nc.ran = { "demo_math", "demo_email" }
    /\ nc.sent = DemoMathRequests + 1
    /\ nc.drains = 1

====
